---------------------------- MODULE Spec2Model ----------------------------
(***************************************************************************)
(* YouTube data harvesting and warehousing (src/Stream.py,                *)
(* src/setup_local_db.py).                                                 *)
(*                                                                         *)
(* The program is single-threaded.  A fetch operation (channel_info,       *)
(* playlist_videos_id, videos_data, comments_inf) runs from its call to    *)
(* its return or raise; every remote invocation it makes goes through      *)
(* safe_api_call.  One step of the model is one invocation of the remote   *)
(* call together with all the code that runs up to the next invocation.    *)
(* The store operations (table creation, inserts) are single steps.        *)
(***************************************************************************)
EXTENDS Integers, Sequences, FiniteSets, TLC

(***************************************************************************)
(* Program constants.                                                      *)
(***************************************************************************)
max_retries == 5
initial_delay == 1
ChunkSize == 50
PageSize == 50

(***************************************************************************)
(* Bounds of the model.                                                    *)
(***************************************************************************)
MaxVideos == 123
MaxMissing == 1
MaxChannelArgs == 2
MaxCommentVideos == 2
MaxPlanCall == 3
MaxQuota == 5
MaxKeys == 2
MaxBatch == 2
MaxRows == 3
MaxTokenLen == 4
MaxDigits == 2

Null == 0

VARIABLES
    op,        \* the fetch operation in progress or last finished
    status,    \* "off" (Stream.py not loaded), "idle", "running", "returned", "raised"
    input,     \* the operation's id sequence argument
    chan,      \* comments_inf: current_channel_id_for_comments
    idx,       \* loop position: channel index, chunk start, video index
    phase,     \* playlist_videos_id: "lookup" or "page"
    playlist,  \* playlist_videos_id: playlist_Id
    token,     \* nextPageToken / nextpagetoken (Null = None)
    acc,       \* playlist_videos_id: videos_ids of the current channel
    result,    \* all_video_ids / all_video_stats / commentdata; the value returned
    retries,   \* safe_api_call: retries
    callNo,    \* number of safe_api_call invocations of the operation
    calls,     \* every invocation of the remote call the operation made
    sleeps,    \* per safe_api_call invocation: the delays it slept
    handed,    \* per finished safe_api_call: "None", "payload" or "raised"
    notes,     \* the notifications (st.*) the operation emitted
    remote,    \* what the remote holds: videos 1..nv, nc comments per video;
               \* bare: it leaves out the counts it may leave out
    plan,      \* how the remote answers the operation's calls
    schema,    \* per table: "none", "pk" (PRIMARY KEY), "nopk"
    db,        \* per table: its rows, in insertion order
    outcome,   \* what the last store operation reported
    report,    \* execute_query: the last selection, its statement and result
    button,    \* main: the button whose handler is running ("none": no handler)
    harvested, \* main: the buttons whose handler ran with every call answered
    duration,  \* iso8601_duration_to_seconds: its argument
    seconds,   \* iso8601_duration_to_seconds: <<>>, or <<the value returned>>
    loaded,    \* Stream.py at load: the CREATE TABLE statements it has run
    setup      \* setup_local_db.py: the CREATE TABLE statements its run has
               \* executed so far (0: no run in progress)

fetchVars == <<op, status, input, chan, idx, phase, playlist, token, acc,
               result, retries, callNo, calls, sleeps, handed, notes, remote,
               plan>>
storeVars == <<schema, db, outcome>>
appVars == <<report, button, harvested>>
codecVars == <<duration, seconds>>
scriptVars == <<loaded, setup>>
vars == <<op, status, input, chan, idx, phase, playlist, token, acc,
          result, retries, callNo, calls, sleeps, handed, notes, remote,
          plan, schema, db, outcome, report, button, harvested, duration,
          seconds, loaded, setup>>

(***************************************************************************)
(* Small helpers.                                                          *)
(***************************************************************************)
Min(a, b) == IF a < b THEN a ELSE b

RECURSIVE Pow2(_)
Pow2(n) == IF n = 0 THEN 1 ELSE 2 * Pow2(n - 1)

Ids(n) == [i \in 1..n |-> i]

Reverse(s) == [i \in 1..Len(s) |-> s[Len(s) + 1 - i]]

Map(s, F(_)) == [i \in 1..Len(s) |-> F(s[i])]

RECURSIVE Concat(_)
Concat(ss) == IF ss = <<>> THEN <<>> ELSE Head(ss) \o Concat(Tail(ss))

SeqsUpTo(S, n) == UNION {[1..k -> S] : k \in 0..n}

(***************************************************************************)
(* iso8601_duration_to_seconds (src/Stream.py 190-200).  A token is a      *)
(* sequence of characters; a character is named by itself, and U+0663 by   *)
(* its Unicode name.  The pattern of line 191 is                           *)
(*     ^PT(?:(\d+)H)?(?:(\d+)M)?(?:(\d+)S)?$                               *)
(* matched with re.match on a str: \d is any Unicode decimal digit, and $  *)
(* matches at the end of the token and also just before a line feed that   *)
(* ends it.                                                                *)
(***************************************************************************)
DigitChars == <<"0", "1", "2", "3", "4", "5", "6", "7", "8", "9">>

ArabicThree == "ARABIC-INDIC DIGIT THREE"

IsAsciiDigit(c) == \E d \in 1..Len(DigitChars) : DigitChars[d] = c

IsDigit(c) == IsAsciiDigit(c) \/ c = ArabicThree

DigitValue(c) ==
    IF c = ArabicThree THEN 3
    ELSE (CHOOSE d \in 1..Len(DigitChars) : DigitChars[d] = c) - 1

\* int(digits), for a run of digits.
RECURSIVE IntOf(_)
IntOf(ds) ==
    IF ds = <<>> THEN 0
    ELSE 10 * IntOf(SubSeq(ds, 1, Len(ds) - 1)) + DigitValue(ds[Len(ds)])

\* str(n), for n >= 0.
RECURSIVE Numeral(_)
Numeral(n) ==
    IF n < 10 THEN <<DigitChars[n + 1]>>
    ELSE Numeral(n \div 10) \o <<DigitChars[(n % 10) + 1]>>

\* The end of the run of digits that starts at position i: \d+ is greedy.
RECURSIVE RunEnd(_, _)
RunEnd(t, i) == IF i <= Len(t) /\ IsDigit(t[i]) THEN RunEnd(t, i + 1) ELSE i

\* (?:(\d+)X)? at position i: the digits and the letter, or nothing.
Group(t, i, letter) ==
    LET e == RunEnd(t, i)
    IN  IF e > i /\ e <= Len(t) /\ t[e] = letter
        THEN [next |-> e + 1, digits |-> SubSeq(t, i, e - 1)]
        ELSE [next |-> i, digits |-> <<>>]

\* $ at position i.
AtEnd(t, i) == i = Len(t) + 1 \/ (i = Len(t) /\ t[i] = "\n")

Match(t) ==
    IF Len(t) >= 2 /\ t[1] = "P" /\ t[2] = "T"
    THEN LET h == Group(t, 3, "H")
             m == Group(t, h.next, "M")
             s == Group(t, m.next, "S")
         IN  [ok |-> AtEnd(t, s.next), hours |-> h.digits,
              minutes |-> m.digits, seconds |-> s.digits]
    ELSE [ok |-> FALSE, hours |-> <<>>, minutes |-> <<>>, seconds |-> <<>>]

iso8601_duration_to_seconds(t) ==
    LET match == Match(t)
    IN  IF ~match.ok THEN 0
        ELSE (IntOf(match.hours) * 3600) + (IntOf(match.minutes) * 60)
                 + IntOf(match.seconds)

\* The tokens the function is called with: every sequence of at most
\* MaxTokenLen characters of TokenChars, and the tokens made of up to three
\* numerals of at most MaxDigits digits, each with its letter, followed by
\* nothing, one line feed or two.
TokenChars == {"P", "T", "H", "M", "S", "0", "1", "\n", ArabicThree}

Numerals == SeqsUpTo({"0", "1"}, MaxDigits)

Part(digits, letter) == IF digits = <<>> THEN <<>> ELSE digits \o <<letter>>

Compose(h, m, s) ==
    <<"P", "T">> \o Part(h, "H") \o Part(m, "M") \o Part(s, "S")

Tokens ==
    SeqsUpTo(TokenChars, MaxTokenLen)
        \cup {Compose(h, m, s) \o tail :
                 h \in Numerals, m \in Numerals, s \in Numerals,
                 tail \in {<<>>, <<"\n">>, <<"\n", "\n">>}}

(***************************************************************************)
(* The remote API.  Channel 0 does not exist; channel 1 owns the videos    *)
(* 1..remote.nv; every other channel exists and has no uploads.  A         *)
(* channel's uploads playlist carries the channel's id.  Every video has   *)
(* remote.nc comments.  List endpoints serve pages of maxResults items;    *)
(* the token of page p > 1 is p, the token of page 1 is Null.              *)
(***************************************************************************)
ChannelIds == {0, 1, 2}

ChannelExists(c) == c >= 1

VideoExists(v) == v \in 1..remote.nv

Uploads(c) == IF c = 1 THEN Ids(remote.nv) ELSE <<>>

\* The statistics object of an item.  When remote.bare holds the remote
\* leaves out the counts it may leave out: a channel's hidden subscriber
\* count, every count of a video.
ChannelStatistics(c) ==
    IF remote.bare
    THEN [k \in {"viewCount"} |-> 10 * c]
    ELSE [k \in {"viewCount", "subscriberCount"} |->
            IF k = "viewCount" THEN 10 * c ELSE c]

VideoStatistics(v) ==
    IF remote.bare
    THEN <<>>
    ELSE [k \in {"viewCount", "likeCount", "commentCount"} |->
            CASE k = "viewCount" -> 10 * v
              [] k = "likeCount" -> v
              [] k = "commentCount" -> remote.nc]

ChannelItem(c) ==
    [id |-> c, title |-> c, description |-> c, uploads |-> c,
     statistics |-> ChannelStatistics(c)]

\* contentDetails of a video: its duration, v seconds, as a token.
VideoContentDetails(v) ==
    IF remote.bare
    THEN <<>>
    ELSE [k \in {"duration"} |-> <<"P", "T">> \o Numeral(v) \o <<"S">>]

\* A publication date is modelled by its year.
VideoItem(v) ==
    [id |-> v, title |-> v, channelId |-> 1, publishedAt |-> 2021 + v,
     statistics |-> VideoStatistics(v),
     contentDetails |-> VideoContentDetails(v)]

PlaylistItem(v) == [videoId |-> v]

CommentsOf(v) == [k \in 1..remote.nc |-> [id |-> 100 * v + k, videoId |-> v]]

PageIndex(tok) == IF tok = Null THEN 1 ELSE tok

PageItems(all, tok) ==
    SubSeq(all, PageSize * (PageIndex(tok) - 1) + 1,
           Min(PageSize * PageIndex(tok), Len(all)))

PageNext(all, tok) ==
    IF PageSize * PageIndex(tok) < Len(all) THEN PageIndex(tok) + 1 ELSE Null

NPages(all) == IF Len(all) = 0 THEN 1 ELSE (Len(all) + PageSize - 1) \div PageSize

NoBody == [items |-> <<>>, next |-> Null, err |-> "none"]

\* The response body the remote serves for a request it answers with 200.
RemoteBody(req) ==
    CASE req.ep = "channels.list" ->
           [items |-> IF ChannelExists(req.arg[1])
                      THEN <<ChannelItem(req.arg[1])>> ELSE <<>>,
            next |-> Null, err |-> "none"]
      [] req.ep = "playlistItems.list" ->
           [items |-> Map(PageItems(Uploads(req.arg[1]), req.tok), PlaylistItem),
            next |-> PageNext(Uploads(req.arg[1]), req.tok), err |-> "none"]
      [] req.ep = "videos.list" ->
           [items |-> Map(SelectSeq(req.arg, VideoExists), VideoItem),
            next |-> Null, err |-> "none"]
      [] req.ep = "commentThreads.list" ->
           [items |-> PageItems(CommentsOf(req.arg[1]), req.tok),
            next |-> PageNext(CommentsOf(req.arg[1]), req.tok), err |-> "none"]

\* What one invocation of request.execute can do: raise an HttpError (its
\* status and reason), raise another exception, or return the response body.
HttpErr(tag, st, reason) ==
    [tag |-> tag, kind |-> "http", status |-> st, reason |-> reason, body |-> NoBody]

Quota == HttpErr("quota", 403, "quotaExceeded")
NotFound == HttpErr("notfound", 404, "notFound")
Disabled == HttpErr("disabled", 403, "commentsDisabled")
Forbidden == HttpErr("forbidden", 403, "forbidden")
NetErr == [tag |-> "exc", kind |-> "exc", status |-> 0, reason |-> "none", body |-> NoBody]
Ok(req) ==
    [tag |-> "ok", kind |-> "value", status |-> 200, reason |-> "none",
     body |-> RemoteBody(req)]

\* A 200 response whose body carries an "error" object of code 403, the shape
\* comments_inf looks for at lines 312-319.
ErrBody(tag, reason) ==
    [tag |-> tag, kind |-> "value", status |-> 200, reason |-> "none",
     body |-> [items |-> <<>>, next |-> Null, err |-> reason]]

DisabledBody == ErrBody("disabled_body", "commentsDisabled")
ForbiddenBody == ErrBody("forbidden_body", "forbidden")

\* A resource the remote does not hold answers 404.
Missing(req) ==
    \/ req.ep = "playlistItems.list" /\ ~ChannelExists(req.arg[1])
    \/ req.ep = "commentThreads.list" /\ ~VideoExists(req.arg[1])

AnyAnswer(req) ==
    {Quota, NotFound, Forbidden, NetErr}
      \cup (IF req.ep = "commentThreads.list"
            THEN {Disabled, DisabledBody, ForbiddenBody} ELSE {})
      \cup (IF Missing(req) THEN {} ELSE {Ok(req)})

Natural(req) == IF Missing(req) THEN NotFound ELSE Ok(req)

\* A plan is either free (the remote answers each invocation in any way it
\* can) or a script: the remote answers the plan.call-th safe_api_call of
\* the operation with quota-exceeded plan.quota times and from then on with
\* plan.fault, and every other call as the resource it holds dictates.
FreePlan == [free |-> TRUE, call |-> 0, quota |-> 0, fault |-> "ok"]

FaultTags == {"ok", "notfound", "forbidden", "exc"}

CommentFaultTags == {"disabled", "disabled_body", "forbidden_body"}

Scripts(tags) ==
    {[free |-> FALSE, call |-> c, quota |-> q, fault |-> f] :
        c \in 1..MaxPlanCall, q \in 0..MaxQuota, f \in tags}

Plans(tags) ==
    {FreePlan} \cup
    {p \in Scripts(tags) :
        /\ p.quota >= max_retries => p.fault = "ok"
        /\ (p.quota = 0 /\ p.fault = "ok") => p.call = 1}

Faulty(tag, req) ==
    CASE tag = "ok" -> Natural(req)
      [] tag = "notfound" -> NotFound
      [] tag = "forbidden" -> Forbidden
      [] tag = "exc" -> NetErr
      [] tag = "disabled" -> Disabled
      [] tag = "disabled_body" -> DisabledBody
      [] tag = "forbidden_body" -> ForbiddenBody

Answers(req, no, r) ==
    IF plan.free
    THEN AnyAnswer(req)
    ELSE IF no = plan.call
    THEN IF r < plan.quota THEN {Quota} ELSE {Faulty(plan.fault, req)}
    ELSE {Natural(req)}

(***************************************************************************)
(* safe_api_call (src/Stream.py 82-106), one pass of its loop body.        *)
(* Every caller passes request.execute as request_callable, so line 89,    *)
(* "return request_callable(...).execute()", first runs the remote         *)
(* call and then looks up .execute on what it returned: the response       *)
(* body, a dict, which has no such attribute.  The AttributeError is       *)
(* caught by the except Exception clause, reported and re-raised.          *)
(***************************************************************************)
LoopContinues_Le(r) == r <= max_retries

LoopContinues(r) == r < max_retries

HasExecute(value) == FALSE

Backoff(r) == initial_delay * Pow2(r)

IsNotFound_Gone(code) == code = 410

\* e.resp.status == 404 (line 95).
IsNotFound(code) == code = 404

Notified_Quiet404(event) == IF event = "skip_404" THEN <<>> ELSE <<event>>

\* st.warning / st.error (lines 92, 96, 99, 103, 105): the notification is
\* shown when the call is made.
Notified(event) == <<event>>

SafeApiAttempt(r, ans) ==
    IF ans.kind = "http"
    THEN IF ans.status = 403 /\ ans.reason = "quotaExceeded"
         THEN [kind |-> IF LoopContinues(r + 1) THEN "retry" ELSE "return",
               retries |-> r + 1,
               slept |-> <<Backoff(r)>>,
               notes |-> IF LoopContinues(r + 1) THEN Notified("retry")
                         ELSE Notified("retry") \o Notified("gave_up"),
               none |-> TRUE, body |-> NoBody]
         ELSE IF IsNotFound(ans.status)
         THEN [kind |-> "return", retries |-> r, slept |-> <<>>,
               notes |-> Notified("skip_404"), none |-> TRUE, body |-> NoBody]
         ELSE [kind |-> "raise", retries |-> r, slept |-> <<>>,
               notes |-> Notified("api_error"), none |-> TRUE,
               body |-> NoBody]
    ELSE IF ans.kind = "exc"
    THEN [kind |-> "raise", retries |-> r, slept |-> <<>>,
          notes |-> Notified("call_error"), none |-> TRUE, body |-> NoBody]
    ELSE IF HasExecute(ans.body)
    THEN [kind |-> "return", retries |-> r, slept |-> <<>>,
          notes |-> <<>>, none |-> FALSE, body |-> ans.body]
    ELSE [kind |-> "raise", retries |-> r, slept |-> <<>>,
          notes |-> Notified("call_error"), none |-> TRUE, body |-> NoBody]

Tables == {"channels", "videos", "comments"}

(***************************************************************************)
(* The store: db1.db.  A table is created by whichever CREATE TABLE IF NOT *)
(* EXISTS reaches it first: Stream.py declares a PRIMARY KEY               *)
(* (lines 41-77, 132-141, 254-270, 349-358), setup_local_db.py does not    *)
(* (lines 8-46).                                                           *)
(***************************************************************************)
CreateIfNotExists(sch, t, kind) ==
    IF sch[t] = "none" THEN [sch EXCEPT ![t] = kind] ELSE sch

\* The order in which both scripts create the tables.
TableOrder == <<"videos", "channels", "comments">>

KeyOf(t, row) ==
    CASE t = "channels" -> row.Channel_Id
      [] t = "videos" -> row.Video_Id
      [] t = "comments" -> row.comment_id

KeysOf(t, rows) == {KeyOf(t, rows[i]) : i \in 1..Len(rows)}

RowsWithKey(t, rows, k) == {i \in 1..Len(rows) : KeyOf(t, rows[i]) = k}

\* DataFrame.to_sql(t, conn, if_exists='append', index=False): the rows are
\* inserted in one transaction; a row whose key is already in a PRIMARY KEY
\* table raises sqlite3.IntegrityError and the transaction is rolled back.
Violates(sch, rows, t, df) ==
    /\ sch[t] = "pk"
    /\ \/ KeysOf(t, df) \cap KeysOf(t, rows[t]) # {}
       \/ \E i, j \in 1..Len(df) : i < j /\ KeyOf(t, df[i]) = KeyOf(t, df[j])

\* The same call written as an upsert (INSERT OR REPLACE): a stored row
\* whose key comes again is overwritten by the last record of that key.
ToSql_Replace(sch, rows, t, df) ==
    [raised |-> FALSE,
     rows |-> [rows EXCEPT ![t] =
                 [i \in 1..Len(rows[t]) |->
                    IF KeyOf(t, rows[t][i]) \in KeysOf(t, df)
                    THEN df[CHOOSE j \in 1..Len(df) :
                              /\ KeyOf(t, df[j]) = KeyOf(t, rows[t][i])
                              /\ \A m \in (j + 1)..Len(df) :
                                     KeyOf(t, df[m]) # KeyOf(t, df[j])]
                    ELSE rows[t][i]]
                 \o SelectSeq(df, LAMBDA r : KeyOf(t, r) \notin KeysOf(t, rows[t]))]]

ToSql(sch, rows, t, df) ==
    IF Violates(sch, rows, t, df)
    THEN [raised |-> TRUE, rows |-> rows]
    ELSE [raised |-> FALSE, rows |-> [rows EXCEPT ![t] = rows[t] \o df]]

\* What an insert shows for the exception to_sql raised ("none": it did not
\* raise).  The channel inserts (lines 147-153, 426-433, 586-592) have a
\* clause for sqlite3.IntegrityError before the one for Exception; the video
\* and comment inserts (lines 275-279, 362-366) have the one for Exception
\* only.
InsertReport(t, exc) ==
    IF exc = "none" THEN "success"
    ELSE IF t = "channels" /\ exc = "IntegrityError" THEN "skipped"
    ELSE "error"

(***************************************************************************)
(* The fetchers.  Each XAfter(v) is the code of fetcher X from the return  *)
(* of safe_api_call with v (v.none: the call returned None) up to the next *)
(* safe_api_call or the fetcher's return; it yields the new locals.        *)
(***************************************************************************)
Cur ==
    [status |-> status, idx |-> idx, phase |-> phase, playlist |-> playlist,
     token |-> token, acc |-> acc, result |-> result, notes |-> <<>>,
     db |-> db, outcome |-> outcome]

\* The request the running fetcher has passed to safe_api_call.
PendingRequest ==
    CASE op = "channel_info" ->
           [ep |-> "channels.list", arg |-> <<input[1]>>, tok |-> Null]
      [] op = "eachchanneldetails" ->
           [ep |-> "channels.list", arg |-> <<input[idx]>>, tok |-> Null]
      [] op = "fetch_channel_data" ->
           [ep |-> "channels.list", arg |-> <<input[1]>>, tok |-> Null]
      [] op = "playlist_videos_id" /\ phase = "lookup" ->
           [ep |-> "channels.list", arg |-> <<input[idx]>>, tok |-> Null]
      [] op = "playlist_videos_id" /\ phase = "page" ->
           [ep |-> "playlistItems.list", arg |-> <<playlist>>, tok |-> token]
      [] op = "videos_data" ->
           [ep |-> "videos.list",
            arg |-> SubSeq(input, idx + 1, Min(idx + ChunkSize, Len(input))),
            tok |-> Null]
      [] op = "comments_inf" ->
           [ep |-> "commentThreads.list", arg |-> <<input[idx]>>, tok |-> token]

\* dict.get(key, default).
Get(d, key, default) == IF key \in DOMAIN d THEN d[key] ELSE default

\* d[key] raises KeyError when the key is absent.
HasKeys(d, keys) == keys \subseteq DOMAIN d

\* channel_info, lines 116-127.  The counts are read with
\* response["items"][0]["statistics"]["viewCount"] and [...]["subscriberCount"].
ChannelRow(item) ==
    [Channel_Name |-> item.title, Channel_Id |-> item.id,
     Channel_Des |-> item.description, Channel_playid |-> item.uploads,
     channel_viewcount |-> item.statistics["viewCount"],
     channel_subcount |-> item.statistics["subscriberCount"]]

ChannelInfoAfter(v) ==
    IF ~v.none /\ v.body.items # <<>>
    THEN IF HasKeys(v.body.items[1].statistics, {"viewCount", "subscriberCount"})
         THEN [Cur EXCEPT !.status = "returned",
                          !.result = <<ChannelRow(v.body.items[1])>>]
         ELSE [Cur EXCEPT !.status = "raised", !.result = <<>>]
    ELSE [Cur EXCEPT !.status = "returned", !.result = <<>>,
                     !.notes = <<"no_channel_data">>]

\* eachchanneldetails, lines 144-156: channel_info's result is stored, then
\* the next channel id is fetched or the function returns.
EachChannelAfter(v) ==
    LET df == ChannelInfoAfter(v)
        r == ToSql(schema, db, "channels", df.result)
        stored == IF df.status = "raised"
                  THEN df
                  ELSE IF df.result = <<>>
                  THEN [Cur EXCEPT !.notes = df.notes \o <<"could_not_fetch">>]
                  ELSE IF r.raised
                  THEN [Cur EXCEPT !.outcome =
                                       InsertReport("channels", "IntegrityError"),
                                   !.notes = <<"already_exists">>]
                  ELSE [Cur EXCEPT !.db = r.rows,
                                   !.outcome = InsertReport("channels", "none"),
                                   !.notes = <<"inserted">>]
    IN  IF df.status = "raised"
        THEN stored
        ELSE IF idx < Len(input)
        THEN [stored EXCEPT !.idx = idx + 1]
        ELSE [stored EXCEPT !.status = "returned"]

\* fetch_channel_data, lines 572-599: the row is built with the id the
\* function was called with and appended to channels; a KeyError of a count
\* the payload leaves out is caught at line 601.
FetchChannelAfter(v) ==
    IF ~v.none /\ v.body.items # <<>>
    THEN IF HasKeys(v.body.items[1].statistics, {"viewCount", "subscriberCount"})
         THEN LET row == [ChannelRow(v.body.items[1])
                             EXCEPT !.Channel_Id = input[1]]
                  r == ToSql(schema, db, "channels", <<row>>)
              IN  IF r.raised
                  THEN [Cur EXCEPT !.status = "returned", !.result = <<row>>,
                                   !.outcome =
                                       InsertReport("channels", "IntegrityError"),
                                   !.notes = <<"already_exists">>]
                  ELSE [Cur EXCEPT !.status = "returned", !.result = <<row>>,
                                   !.db = r.rows,
                                   !.outcome = InsertReport("channels", "none"),
                                   !.notes = <<"inserted">>]
         ELSE [Cur EXCEPT !.status = "returned", !.result = <<>>,
                          !.notes = <<"fetch_error">>]
    ELSE [Cur EXCEPT !.status = "returned", !.result = <<>>,
                     !.notes = <<"no_items">>]

\* What an exception out of safe_api_call does to the fetcher: it unwinds
\* it, except in fetch_channel_data, whose except clause (lines 601-604)
\* reports it and returns an empty frame.
Unwound ==
    IF op = "fetch_channel_data"
    THEN [status |-> "returned", notes |-> <<"fetch_error">>]
    ELSE [status |-> "raised", notes |-> <<>>]

\* playlist_videos_id, lines 161-188: the end of one channel's iteration
\* (line 187) and the start of the next (lines 162-164) or the return.
NextChannel(all, said) ==
    IF idx < Len(input)
    THEN [Cur EXCEPT !.idx = idx + 1, !.phase = "lookup", !.acc = <<>>,
                     !.result = all,
                     !.notes = said \o <<"fetching_playlist">>]
    ELSE [Cur EXCEPT !.status = "returned", !.acc = <<>>, !.result = all,
                     !.notes = said]

PlaylistAfter(v) ==
    IF phase = "lookup"
    THEN IF ~v.none /\ Len(v.body.items) > 0
         THEN [Cur EXCEPT !.phase = "page",
                          !.playlist = v.body.items[1].uploads,
                          !.token = Null]
         ELSE NextChannel(result \o acc, <<"no_content_details">>)
    ELSE IF v.none
         THEN NextChannel(result \o acc, <<>>)
         ELSE LET got == acc \o [i \in 1..Len(v.body.items) |->
                                   v.body.items[i].videoId]
              IN  IF v.body.next = Null
                  THEN [NextChannel(result \o got, <<>>) EXCEPT !.token = Null]
                  ELSE [Cur EXCEPT !.acc = got, !.token = v.body.next]

\* videos_data, lines 222-247.
VideoRow(item) ==
    [Video_Id |-> item.id, Video_title |-> item.title,
     channel_id |-> item.channelId,
     Video_viewcount |-> Get(item.statistics, "viewCount", 0),
     Video_likecount |-> Get(item.statistics, "likeCount", 0),
     Video_commentcount |-> Get(item.statistics, "commentCount", 0),
     Video_pubdate |-> item.publishedAt,
     Video_duration |->
         iso8601_duration_to_seconds(
             Get(item.contentDetails, "duration", <<"P", "T", "0", "S">>))]

VideosAfter(v) ==
    LET some == ~v.none /\ v.body.items # <<>>
        stats == IF some THEN result \o Map(v.body.items, VideoRow) ELSE result
        said == IF some THEN <<>> ELSE <<"no_data_for_batch">>
    IN  IF idx + ChunkSize < Len(input)
        THEN [Cur EXCEPT !.idx = idx + ChunkSize, !.result = stats,
                         !.notes = said]
        ELSE [Cur EXCEPT !.status = "returned", !.result = stats,
                         !.notes = said]

\* comments_inf, lines 294-344: a break out of the while loop, then the next
\* video (lines 295-306) or the return.
NextVideo(data, said) ==
    IF idx < Len(input)
    THEN [Cur EXCEPT !.idx = idx + 1, !.token = Null, !.result = data,
                     !.notes = said]
    ELSE [Cur EXCEPT !.status = "returned", !.result = data, !.notes = said]

CommentRow(item) ==
    [comment_id |-> item.id, video_id |-> item.videoId, channel_id |-> chan]

CommentsAfter(v) ==
    IF v.none
    THEN NextVideo(result, <<>>)
    ELSE IF v.body.err # "none"
    THEN IF v.body.err = "commentsDisabled"
         THEN NextVideo(result, <<"comments_disabled">>)
         ELSE NextVideo(result, <<"unhandled_403">>)
    ELSE IF v.body.items # <<>>
    THEN LET data == result \o Map(v.body.items, CommentRow)
         IN  IF v.body.next = Null
             THEN [NextVideo(data, <<>>) EXCEPT !.token = Null]
             ELSE [Cur EXCEPT !.token = v.body.next, !.result = data]
    ELSE NextVideo(result, <<"no_more_comments">>)

After(v) ==
    CASE op = "channel_info" -> ChannelInfoAfter(v)
      [] op = "eachchanneldetails" -> EachChannelAfter(v)
      [] op = "fetch_channel_data" -> FetchChannelAfter(v)
      [] op = "playlist_videos_id" -> PlaylistAfter(v)
      [] op = "videos_data" -> VideosAfter(v)
      [] op = "comments_inf" -> CommentsAfter(v)

NoReport ==
    [question |-> "none", statement |-> "none", rows |-> <<>>,
     invalid |-> FALSE]

(***************************************************************************)
(* State after construction: neither Stream.py nor setup_local_db.py has   *)
(* run, the store file db1.db does not exist yet.                          *)
(***************************************************************************)
CommentCounts == {0, 1, PageSize + 1}

\* The sizes tried for an id sequence: empty, one id, a full chunk, one
\* more, two full chunks, and the largest.
VideoCounts == {0, 1, ChunkSize, ChunkSize + 1, 2 * ChunkSize, MaxVideos}

\* The sizes tried for a playlist: empty, one page, two pages, the largest.
PlaylistCounts == {0, PageSize, PageSize + 1, MaxVideos}

InitProgram ==
    /\ op = "none" /\ status = "off"
    /\ input = <<>> /\ chan = 0 /\ idx = 0 /\ phase = "lookup"
    /\ playlist = 0 /\ token = Null /\ acc = <<>> /\ result = <<>>
    /\ retries = 0 /\ callNo = 0 /\ calls = <<>> /\ sleeps = <<>>
    /\ handed = <<>> /\ notes = <<>>
    /\ remote = [nv |-> 0, nc |-> 0, bare |-> FALSE]
    /\ plan = FreePlan
    /\ schema = [t \in Tables |-> "none"]
    /\ db = [t \in Tables |-> <<>>]
    /\ outcome = "none"
    /\ report = NoReport
    /\ button = "none" /\ harvested = {}
    /\ seconds = <<>>
    /\ loaded = 0 /\ setup = 0

Init == InitProgram /\ duration = <<>>

(***************************************************************************)
(* Calls of the fetchers.  Begin(...) is the fetcher's code up to its      *)
(* first safe_api_call; Finish(...) is a fetcher that returns without one. *)
(***************************************************************************)
Started(name, ids, c, rem, said) ==
    /\ op' = name /\ status' = "running" /\ input' = ids /\ chan' = c
    /\ idx' = IF name = "videos_data" THEN 0 ELSE 1
    /\ phase' = "lookup" /\ playlist' = 0 /\ token' = Null
    /\ acc' = <<>> /\ result' = <<>>
    /\ retries' = 0 /\ callNo' = 1 /\ calls' = <<>> /\ sleeps' = <<<<>>>>
    /\ handed' = <<>> /\ notes' = said /\ remote' = rem

Begin(name, ids, c, rem, said) ==
    /\ status = "idle"
    /\ Started(name, ids, c, rem, said)
    /\ UNCHANGED <<db, outcome, appVars, codecVars, scriptVars>>
    /\ plan' \in Plans(IF name = "comments_inf"
                       THEN FaultTags \cup CommentFaultTags ELSE FaultTags)

\* A fetcher that returns value without calling safe_api_call.
Returned(name, ids, c, rem, said, value) ==
    /\ status = "idle"
    /\ op' = name /\ status' = "returned" /\ input' = ids /\ chan' = c
    /\ idx' = 0 /\ phase' = "lookup" /\ playlist' = 0 /\ token' = Null
    /\ acc' = <<>> /\ result' = value
    /\ retries' = 0 /\ callNo' = 0 /\ calls' = <<>> /\ sleeps' = <<>>
    /\ handed' = <<>> /\ notes' = said /\ remote' = rem
    /\ UNCHANGED <<db, outcome, appVars, codecVars, scriptVars>>
    /\ plan' = FreePlan

Finish(name, ids, c, rem, said) == Returned(name, ids, c, rem, said, <<>>)

channel_info ==
    /\ \E c \in ChannelIds, bare \in BOOLEAN :
           Begin("channel_info", <<c>>, 0,
                 [nv |-> 0, nc |-> 0, bare |-> bare], <<>>)
    /\ UNCHANGED schema

\* fetch_channel_data, lines 556-570: the channels table is read; a stored
\* channel is returned as it is, another is looked up.
fetch_channel_data ==
    /\ \E c \in ChannelIds, bare \in BOOLEAN :
           LET rem == [nv |-> 0, nc |-> 0, bare |-> bare]
               df == SelectSeq(db.channels, LAMBDA row : row.Channel_Id = c)
           IN  IF df # <<>>
               THEN Returned("fetch_channel_data", <<c>>, 0, rem,
                             <<"already_in_db">>, df)
               ELSE Begin("fetch_channel_data", <<c>>, 0, rem,
                          <<"not_in_db">>)
    /\ UNCHANGED schema

\* eachchanneldetails, lines 129-144: the table is created, then the first
\* channel id is fetched.
eachchanneldetails ==
    /\ \E ids \in SeqsUpTo(ChannelIds, MaxChannelArgs) :
           IF ids = <<>>
           THEN Finish("eachchanneldetails", ids, 0, remote, <<>>)
           ELSE Begin("eachchanneldetails", ids, 0, remote, <<>>)
    /\ schema' = CreateIfNotExists(schema, "channels", "pk")

playlist_videos_id ==
    /\ \E ids \in SeqsUpTo(ChannelIds, MaxChannelArgs) :
       \E nv \in IF \E i \in 1..Len(ids) : ids[i] = 1
                  THEN PlaylistCounts ELSE {0} :
           IF ids = <<>>
           THEN Finish("playlist_videos_id", ids, 0, [nv |-> nv, nc |-> 0, bare |-> FALSE],
                       <<>>)
           ELSE Begin("playlist_videos_id", ids, 0,
                      [nv |-> nv, nc |-> 0, bare |-> FALSE],
                      <<"fetching_playlist">>)
    /\ UNCHANGED schema

videos_data ==
    /\ \E n \in VideoCounts, miss \in 0..MaxMissing, rev \in BOOLEAN :
       \E bare \in IF n = 1 THEN BOOLEAN ELSE {FALSE} :
           LET ids == IF rev THEN Reverse(Ids(n)) ELSE Ids(n)
               rem == [nv |-> IF n > miss THEN n - miss ELSE 0, nc |-> 0,
                       bare |-> bare]
           IN  IF ids = <<>>
               THEN Finish("videos_data", ids, 0, rem, <<"no_video_ids">>)
               ELSE Begin("videos_data", ids, 0, rem, <<>>)
    /\ UNCHANGED schema

comments_inf ==
    /\ \E n \in 0..MaxCommentVideos, nv \in 0..MaxCommentVideos, c \in {1, 2} :
       \E nc \in IF nv = 0 THEN {0} ELSE CommentCounts :
           LET rem == [nv |-> nv, nc |-> nc, bare |-> FALSE]
           IN  IF n = 0
               THEN Finish("comments_inf", <<>>, c, rem, <<"no_video_ids">>)
               ELSE Begin("comments_inf", Ids(n), c, rem, <<>>)
    /\ UNCHANGED schema

(***************************************************************************)
(* One invocation of the remote call inside safe_api_call, and what        *)
(* follows it: a backoff and another pass of the loop, a raise that        *)
(* unwinds the fetcher (no fetcher catches), or a return to the fetcher,   *)
(* which runs on to its next safe_api_call or to its own return.           *)
(***************************************************************************)
Logged(ans) ==
    Append(calls, [no |-> callNo, ep |-> PendingRequest.ep,
                   arg |-> PendingRequest.arg, tok |-> PendingRequest.tok,
                   ans |-> ans.tag])

Slept(a) == [sleeps EXCEPT ![callNo] = sleeps[callNo] \o a.slept]

AttemptRetry ==
    /\ status = "running"
    /\ \E ans \in Answers(PendingRequest, callNo, retries) :
        LET a == SafeApiAttempt(retries, ans)
        IN  /\ a.kind = "retry"
            /\ calls' = Logged(ans)
            /\ retries' = a.retries
            /\ sleeps' = Slept(a)
            /\ notes' = notes \o a.notes
            /\ UNCHANGED <<op, status, input, chan, idx, phase, playlist,
                           token, acc, result, callNo, handed, remote, plan>>
    /\ UNCHANGED <<storeVars, appVars, codecVars, scriptVars>>

AttemptRaise ==
    /\ status = "running"
    /\ \E ans \in Answers(PendingRequest, callNo, retries) :
        LET a == SafeApiAttempt(retries, ans)
        IN  /\ a.kind = "raise"
            /\ calls' = Logged(ans)
            /\ sleeps' = Slept(a)
            /\ notes' = notes \o a.notes \o Unwound.notes
            /\ handed' = Append(handed, "raised")
            /\ status' = Unwound.status
            /\ result' = <<>>
            /\ UNCHANGED <<op, input, chan, idx, phase, playlist, token, acc,
                           retries, callNo, remote, plan>>
    /\ UNCHANGED <<storeVars, appVars, codecVars, scriptVars>>

AttemptReturn ==
    /\ status = "running"
    /\ \E ans \in Answers(PendingRequest, callNo, retries) :
        LET a == SafeApiAttempt(retries, ans)
            k == After([none |-> a.none, body |-> a.body])
        IN  /\ a.kind = "return"
            /\ calls' = Logged(ans)
            /\ notes' = notes \o a.notes \o k.notes
            /\ handed' = Append(handed, IF a.none THEN "None" ELSE "payload")
            /\ status' = k.status /\ idx' = k.idx /\ phase' = k.phase
            /\ playlist' = k.playlist /\ token' = k.token /\ acc' = k.acc
            /\ result' = k.result
            /\ db' = k.db /\ outcome' = k.outcome
            /\ IF k.status = "running"
               THEN /\ retries' = 0
                    /\ callNo' = callNo + 1
                    /\ sleeps' = Append(Slept(a), <<>>)
               ELSE /\ retries' = a.retries
                    /\ callNo' = callNo
                    /\ sleeps' = Slept(a)
            /\ UNCHANGED <<op, input, chan, remote, plan>>
    /\ UNCHANGED <<schema, appVars, codecVars, scriptVars>>

\* The caller is done with what the fetcher returned or raised.
Forgotten ==
    /\ op' = "none" /\ status' = "idle"
    /\ input' = <<>> /\ chan' = 0 /\ idx' = 0 /\ phase' = "lookup"
    /\ playlist' = 0 /\ token' = Null /\ acc' = <<>> /\ result' = <<>>
    /\ retries' = 0 /\ callNo' = 0 /\ calls' = <<>> /\ sleeps' = <<>>
    /\ handed' = <<>> /\ notes' = <<>>
    /\ remote' = [nv |-> 0, nc |-> 0, bare |-> FALSE]
    /\ plan' = FreePlan
    /\ report' = NoReport

Drop ==
    /\ status \in {"returned", "raised"}
    /\ button = "none"
    /\ Forgotten
    /\ UNCHANGED <<storeVars, button, harvested, codecVars, scriptVars>>

\* The records the store operations are called with.
VideoRecord(k, v) ==
    [Video_Id |-> k, Video_title |-> v, channel_id |-> 1,
     Video_viewcount |-> 10 * v, Video_likecount |-> v,
     Video_commentcount |-> 0, Video_pubdate |-> 2021 + v,
     Video_duration |-> 60 * v]

CommentRecord(k, v) == [comment_id |-> k, video_id |-> v, channel_id |-> 1]

\* The titles (video records) and video ids (comment records) tried.
Vals == {1, 2}

Frames(R(_, _)) ==
    {Map(s, LAMBDA p : R(p[1], p[2])) :
        s \in SeqsUpTo((1..MaxKeys) \X Vals, MaxBatch)}

\* Stream.py at load (lines 38-79), on a first run of the script: the next
\* CREATE TABLE IF NOT EXISTS, each committed as it is executed; after the
\* third the page is shown.
StartApp ==
    /\ status = "off"
    /\ schema' = CreateIfNotExists(schema, TableOrder[loaded + 1], "pk")
    /\ loaded' = loaded + 1
    /\ status' = IF loaded + 1 = Len(TableOrder) THEN "idle" ELSE "off"
    /\ UNCHANGED <<op, input, chan, idx, phase, playlist, token, acc, result,
                   retries, callNo, calls, sleeps, handed, notes, remote,
                   plan, db, outcome, appVars, codecVars, setup>>

\* setup_local_db.ensure_tables (lines 4-49), run as a script of its own
\* beside the app: the next CREATE TABLE IF NOT EXISTS of its run, each
\* committed as it is executed.
ensure_tables ==
    /\ status \in {"off", "idle"}
    /\ schema' = CreateIfNotExists(schema, TableOrder[setup + 1], "nopk")
    /\ setup' = (setup + 1) % Len(TableOrder)
    /\ UNCHANGED <<fetchVars, db, outcome, appVars, codecVars, loaded>>

IsEmpty_Never(df) == FALSE

\* df1.empty / df2.empty (lines 273, 361).
IsEmpty(df) == df = <<>>

\* insert_videos_into_sqlite / insert_comments_into_sqlite
\* (lines 250-283, 346-369).
Inserted(t, df) ==
    LET sch == CreateIfNotExists(schema, t, "pk")
        r == ToSql(sch, db, t, df)
    IN  /\ schema' = sch
        /\ IF ~IsEmpty(df)
           THEN /\ db' = r.rows
                /\ outcome' = InsertReport(t, IF r.raised THEN "IntegrityError"
                                               ELSE "none")
           ELSE /\ db' = db
                /\ outcome' = "no_data"

InsertInto(t, df) ==
    /\ status = "idle"
    /\ Len(db.videos) + Len(db.comments) + Len(df) <= MaxRows
    /\ Inserted(t, df)
    /\ UNCHANGED <<fetchVars, appVars, codecVars, scriptVars>>

insert_videos_into_sqlite ==
    \E df1 \in Frames(VideoRecord) : InsertInto("videos", df1)

insert_comments_into_sqlite ==
    \E df2 \in Frames(CommentRecord) : InsertInto("comments", df2)

(***************************************************************************)
(* execute_query (lines 480-554).  A result is modelled by the rows it     *)
(* holds, each named by the table rows or the group it comes from; the     *)
(* order of the rows of a result is not modelled.  Where ORDER BY ...      *)
(* LIMIT k has to choose among equal rows, any choice is possible.         *)
(***************************************************************************)
query_mapping ==
    [q \in {"What are the names of all the videos and their corresponding channels?",
            "Which channels have the most number of videos, and how many videos do they have?",
            "What are the top 10 most viewed videos and their respective channels?",
            "How many comments were made on each video, and what are their corresponding video names?",
            "Which videos have the highest number of likes, and what are their corresponding channel names?",
            "What is the total number of likes for each video, and what are their corresponding video names?",
            "What is the total number of views for each channel, and what are their corresponding channel names?",
            "What are the names of all the channels that have published videos in the year 2022?",
            "What is the average duration of all videos in each channel, and what are their corresponding channel names?",
            "Which videos have the highest number of comments, and what are their corresponding channel names?"}
     |->
     CASE q = "What are the names of all the videos and their corresponding channels?"
            -> "titles_and_channels"
       [] q = "Which channels have the most number of videos, and how many videos do they have?"
            -> "video_count_per_channel"
       [] q = "What are the top 10 most viewed videos and their respective channels?"
            -> "top_10_viewed"
       [] q = "How many comments were made on each video, and what are their corresponding video names?"
            -> "comment_count_per_video"
       [] q = "Which videos have the highest number of likes, and what are their corresponding channel names?"
            -> "most_liked"
       [] q = "What is the total number of likes for each video, and what are their corresponding video names?"
            -> "total_likes_per_video"
       [] q = "What is the total number of views for each channel, and what are their corresponding channel names?"
            -> "total_views_per_channel"
       [] q = "What are the names of all the channels that have published videos in the year 2022?"
            -> "channels_of_2022"
       [] q = "What is the average duration of all videos in each channel, and what are their corresponding channel names?"
            -> "average_duration_per_channel"
       [] q = "Which videos have the highest number of comments, and what are their corresponding channel names?"
            -> "most_commented"]

\* query_mapping.get(question), with a default statement for other names.
QueryFor_Default(question) ==
    IF question \in DOMAIN query_mapping
    THEN query_mapping[question] ELSE "titles_and_channels"

\* query_mapping.get(question): "none" for None.
QueryFor(question) ==
    IF question \in DOMAIN query_mapping
    THEN query_mapping[question] ELSE "none"

RECURSIVE SumSeq(_)
SumSeq(ns) == IF ns = <<>> THEN 0 ELSE Head(ns) + SumSeq(Tail(ns))

\* videos JOIN channels ON channels.channel_id = videos.channel_id, as
\* the pairs <<row of videos, row of channels>>.
VideosWithChannels ==
    {p \in (1..Len(db.videos)) \X (1..Len(db.channels)) :
        db.channels[p[2]].Channel_Id = db.videos[p[1]].channel_id}

\* videos JOIN comments ON videos.Video_Id = comments.video_id.
VideosWithComments ==
    {p \in (1..Len(db.videos)) \X (1..Len(db.comments)) :
        db.videos[p[1]].Video_Id = db.comments[p[2]].video_id}

TitleOf(p) == db.videos[p[1]].Video_title

ChannelNameOf(p) == db.channels[p[2]].Channel_Name

\* The video rows of the pairs of a group, in table order, one per pair.
VideosOf(pairs) ==
    Concat([i \in 1..Len(db.videos) |->
              [j \in 1..Cardinality({p \in pairs : p[1] = i}) |-> db.videos[i]]])

\* ORDER BY val DESC LIMIT k: the possible selections of k pairs.
Top(pairs, k, val(_)) ==
    {sel \in SUBSET pairs :
        /\ Cardinality(sel) = Min(k, Cardinality(pairs))
        /\ \A a \in sel, b \in pairs \ sel : val(a) >= val(b)}

TitleAndChannel(pairs) == [p \in pairs |-> <<TitleOf(p), ChannelNameOf(p)>>]

PerChannel(agg(_)) ==
    [n \in {ChannelNameOf(p) : p \in VideosWithChannels} |->
        <<n, agg({p \in VideosWithChannels : ChannelNameOf(p) = n})>>]

\* The results the statement can have on the store as it is.
Results(statement) ==
    CASE statement = "titles_and_channels" ->
           {TitleAndChannel(VideosWithChannels)}
      [] statement = "video_count_per_channel" ->
           {PerChannel(LAMBDA g : Cardinality(g))}
      [] statement = "top_10_viewed" ->
           {TitleAndChannel(sel) :
               sel \in Top(VideosWithChannels, 10,
                           LAMBDA p : db.videos[p[1]].Video_viewcount)}
      [] statement = "comment_count_per_video" ->
           {[t \in {TitleOf(p) : p \in VideosWithComments} |->
               <<t, Cardinality({p \in VideosWithComments : TitleOf(p) = t})>>]}
      [] statement = "most_liked" ->
           {TitleAndChannel(sel) :
               sel \in Top(VideosWithChannels, 1,
                           LAMBDA p : db.videos[p[1]].Video_likecount)}
      [] statement = "total_likes_per_video" ->
           {[t \in {db.videos[i].Video_title : i \in 1..Len(db.videos)} |->
               <<t, SumSeq(Map(SelectSeq(db.videos,
                                         LAMBDA r : r.Video_title = t),
                               LAMBDA r : r.Video_likecount))>>]}
      [] statement = "total_views_per_channel" ->
           {PerChannel(LAMBDA g :
                SumSeq(Map(VideosOf(g), LAMBDA r : r.Video_viewcount)))}
      [] statement = "channels_of_2022" ->
           {[n \in {ChannelNameOf(p) :
                       p \in {q \in VideosWithChannels :
                                db.videos[q[1]].Video_pubdate = 2022}} |->
               <<n>>]}
      [] statement = "average_duration_per_channel" ->
           {PerChannel(LAMBDA g :
                [sum |-> SumSeq(Map(VideosOf(g), LAMBDA r : r.Video_duration)),
                 count |-> Cardinality(g)])}
      [] statement = "most_commented" ->
           {TitleAndChannel(sel) :
               sel \in Top(VideosWithChannels, 1,
                           LAMBDA p : db.videos[p[1]].Video_commentcount)}

Executed(question) ==
    /\ status = "idle"
    /\ op' = "execute_query" /\ status' = "returned"
    /\ IF QueryFor(question) # "none"
       THEN \E rows \in Results(QueryFor(question)) :
                report' = [question |-> question,
                           statement |-> QueryFor(question),
                           rows |-> rows, invalid |-> FALSE]
       ELSE report' = [question |-> question, statement |-> "none",
                       rows |-> <<>>, invalid |-> TRUE]
    /\ UNCHANGED <<input, chan, idx, phase, playlist, token, acc, result,
                   retries, callNo, calls, sleeps, handed, remote,
                   plan, storeVars, button, harvested, codecVars, scriptVars>>

\* execute_query shows nothing but the error of an invalid selection,
\* which report.invalid records.
ExecuteQuery(question) == Executed(question) /\ UNCHANGED notes

\* The selection names execute_query is called with: the ten of the menu,
\* the empty name and another name.
Selections == DOMAIN query_mapping \cup {"", "Which video is the newest?"}

execute_query == \E question \in Selections : ExecuteQuery(question)

\* A call of iso8601_duration_to_seconds(duration) (lines 190-200).
DecodeDuration ==
    /\ seconds = <<>>
    /\ seconds' = <<iso8601_duration_to_seconds(duration)>>
    /\ UNCHANGED <<fetchVars, storeVars, appVars, duration, scriptVars>>

InitCodec == InitProgram /\ duration \in Tokens

NextCodec == DecodeDuration

CodecSpec == InitCodec /\ [][NextCodec]_vars

(***************************************************************************)
(* main (lines 372-477): the page "Enter YouTube Channel ID" with its      *)
(* three buttons, and the page "Perform Queries".  chan is the channel id  *)
(* typed in.  A button's handler runs from the press to its last line or   *)
(* to the exception that ends the script run; harvested remembers the      *)
(* buttons whose handler has run for channel 1 against a remote that       *)
(* holds two videos with one comment each and answers every call as the    *)
(* resource it holds dictates.                                             *)
(***************************************************************************)
TypedIds == {0, 1}

RemotesOfMain ==
    {[nv |-> nv, nc |-> nc, bare |-> FALSE] : nv \in {0, 2}, nc \in {0, 1}}

Pressed(name, first, c, said) ==
    /\ status = "idle"
    /\ button' = name
    /\ \E rem \in RemotesOfMain : Started(first, <<c>>, c, rem, said)
    /\ plan' \in Plans(FaultTags)
    /\ UNCHANGED <<storeVars, report, harvested, codecVars, scriptVars>>

\* "Fetch & Store Channel Data" (lines 420-439), up to the remote call.
main_fetch_channel ==
    \E c \in TypedIds : Pressed("channel", "channel_info", c, <<>>)

\* "Fetch & Store Video Data" (lines 442-457), up to the remote call.
main_fetch_videos ==
    \E c \in TypedIds :
        Pressed("videos", "playlist_videos_id", c, <<"fetching_playlist">>)

\* "Fetch & Store Comment Data" (lines 460-475), up to the remote call.
main_fetch_comments ==
    \E c \in TypedIds :
        Pressed("comments", "playlist_videos_id", c, <<"fetching_playlist">>)

\* The handler's last line: the script run is over.
Shown(said) ==
    /\ status' = "shown"
    /\ notes' = notes \o said
    /\ UNCHANGED <<op, input, chan, idx, phase, playlist, token, acc, result,
                   retries, callNo, calls, sleeps, handed, remote, plan>>

\* The handler after the fetcher it called has returned: the channel row
\* is stored (lines 424-437); the ids found are passed to videos_data or
\* comments_inf (lines 447-450, 465-468); the rows fetched are inserted
\* (lines 451-454, 469-472).
main_continue ==
    /\ status = "returned"
    /\ button # "none"
    /\ CASE op = "channel_info" ->
              LET r == ToSql(schema, db, "channels", result)
              IN  /\ IF result # <<>>
                     THEN /\ db' = r.rows
                          /\ outcome' =
                                 InsertReport("channels",
                                              IF r.raised THEN "IntegrityError"
                                              ELSE "none")
                          /\ Shown(<<>>)
                     ELSE /\ UNCHANGED <<db, outcome>>
                          /\ Shown(<<"no_channel_data_fetched">>)
                  /\ UNCHANGED schema
         [] op = "playlist_videos_id" ->
              /\ IF result # <<>>
                 THEN /\ Started(IF button = "videos" THEN "videos_data"
                                 ELSE "comments_inf",
                                 result, chan, remote,
                                 notes \o <<"found_video_ids">>)
                      /\ plan' \in Plans(IF button = "videos" THEN FaultTags
                                         ELSE FaultTags \cup CommentFaultTags)
                 ELSE Shown(<<"no_video_ids_found">>)
              /\ UNCHANGED storeVars
         [] op = "videos_data" ->
              IF result # <<>>
              THEN Inserted("videos", result) /\ Shown(<<>>)
              ELSE Shown(<<"no_video_data_fetched">>) /\ UNCHANGED storeVars
         [] op = "comments_inf" ->
              IF result # <<>>
              THEN Inserted("comments", result) /\ Shown(<<>>)
              ELSE Shown(<<"no_comment_data_fetched">>)
                       /\ UNCHANGED storeVars
    /\ UNCHANGED <<appVars, codecVars, scriptVars>>

\* The remote the end-to-end run is about.
TwoVideosOneCommentEach == [nv |-> 2, nc |-> 1, bare |-> FALSE]

\* The script run of a button is over; the page waits for the next press.
main_done ==
    /\ status \in {"shown", "raised"}
    /\ button # "none"
    /\ harvested' =
           IF chan = 1 /\ remote = TwoVideosOneCommentEach
                /\ ~plan.free /\ plan.quota = 0 /\ plan.fault = "ok"
           THEN harvested \cup {button} ELSE harvested
    /\ button' = "none"
    /\ Forgotten
    /\ UNCHANGED <<storeVars, codecVars, scriptVars>>

\* The page "Perform Queries" (lines 393-414): the query is run and its
\* result shown, or the warning that there is none.
main_perform_queries ==
    \E query_question \in DOMAIN query_mapping :
        /\ Executed(query_question)
        /\ notes' = IF report'.rows = <<>> THEN notes \o <<"no_results">>
                    ELSE notes

\* The page "View Tables" (lines 377-391): the table chosen is read and
\* shown.
main_view_tables ==
    /\ status = "idle"
    /\ \E table_choice \in Tables :
           /\ report' = [question |-> table_choice, statement |-> "select_all",
                         rows |-> db[table_choice], invalid |-> FALSE]
           /\ notes' = IF schema[table_choice] = "none"
                       THEN notes \o <<"error_accessing_table">>
                       ELSE IF db[table_choice] = <<>>
                       THEN notes \o <<"table_is_empty">>
                       ELSE notes
    /\ op' = "view_tables" /\ status' = "returned"
    /\ UNCHANGED <<input, chan, idx, phase, playlist, token, acc, result,
                   retries, callNo, calls, sleeps, handed, remote,
                   plan, storeVars, button, harvested, codecVars, scriptVars>>

\* A button pressed with no channel id typed in (lines 438-439, 458-459,
\* 476-477).
main_press_without_id ==
    /\ status = "idle"
    /\ button' \in {"channel", "videos", "comments"}
    /\ status' = "shown"
    /\ notes' = notes \o <<"enter_channel_id">>
    /\ UNCHANGED <<op, input, chan, idx, phase, playlist, token, acc, result,
                   retries, callNo, calls, sleeps, handed, remote,
                   plan, storeVars, report, harvested, codecVars, scriptVars>>

NextApp ==
    \/ StartApp
    \/ main_fetch_channel
    \/ main_fetch_videos
    \/ main_fetch_comments
    \/ AttemptRetry
    \/ AttemptRaise
    \/ AttemptReturn
    \/ main_continue
    \/ main_done
    \/ main_perform_queries
    \/ main_view_tables
    \/ main_press_without_id
    \/ ensure_tables
    \/ Drop

AppSpec == Init /\ [][NextApp]_vars

\* The store operations, with setup_local_db.py run beside the app.
NextStore ==
    \/ StartApp
    \/ ensure_tables
    \/ insert_videos_into_sqlite
    \/ insert_comments_into_sqlite

StoreSpec == Init /\ [][NextStore]_vars

\* The queries, on the stores the app's inserts produce.
NextQuery ==
    \/ StartApp
    \/ insert_videos_into_sqlite
    \/ insert_comments_into_sqlite
    \/ execute_query
    \/ Drop

QuerySpec == Init /\ [][NextQuery]_vars

Next ==
    \/ StartApp
    \/ Drop
    \/ channel_info
    \/ eachchanneldetails
    \/ fetch_channel_data
    \/ playlist_videos_id
    \/ videos_data
    \/ comments_inf
    \/ AttemptRetry
    \/ AttemptRaise
    \/ AttemptReturn

Spec == Init /\ [][Next]_vars

(***************************************************************************)
(* Vocabulary of the properties.                                           *)
(***************************************************************************)
Done == status \in {"returned", "raised"}

\* The answers the remote gave to the invocations of the n-th safe_api_call.
AnswersOf(n) ==
    LET mine == SelectSeq(calls, LAMBDA c : c.no = n)
    IN  [i \in 1..Len(mine) |-> mine[i].ans]

AllQuota(a) == \A i \in 1..Len(a) : a[i] = "quota"

GaveUp(n) == AnswersOf(n) = <<"quota", "quota", "quota", "quota", "quota">>

CallsTo(ep) == SelectSeq(calls, LAMBDA c : c.ep = ep)

IsPrefix(s, t) == Len(s) <= Len(t) /\ SubSeq(t, 1, Len(s)) = s

\* The plan makes the plan.call-th safe_api_call end in None: a 404, or
\* quota-exceeded on each of the five attempts.
PlannedNone ==
    /\ ~plan.free
    /\ \/ plan.quota >= 5
       \/ plan.quota < 5 /\ plan.fault = "notfound"

\* The plan makes the plan.call-th safe_api_call fail in any way.
PlannedFailure == ~plan.free /\ (plan.quota >= 5 \/ plan.fault # "ok")

NoFault == ~plan.free /\ plan.quota = 0 /\ plan.fault = "ok"

\* What the remote holds for the ids of a sequence.
VideoRowsOf(ids) == Map(SelectSeq(ids, VideoExists), LAMBDA v : VideoRow(VideoItem(v)))

CommentRowsOf(ids) ==
    Concat(Map(SelectSeq(ids, VideoExists),
               LAMBDA v : Map(CommentsOf(v), CommentRow)))

Without(ids, j) == SubSeq(ids, 1, j - 1) \o SubSeq(ids, j + 1, Len(ids))

NChunks(n) == (n + 49) \div 50

(***************************************************************************)
(* C1.  A remote call that answers quota-exceeded exactly 4 times and then *)
(* succeeds: safe_api_call, called as the fetchers call it, retries 4      *)
(* times with the delays 1, 2, 4, 8 and returns the success payload to its *)
(* caller.                                                                 *)
(***************************************************************************)
C1_FourRetriesThenPayload ==
    \A n \in 1..Len(handed) :
        AnswersOf(n) = <<"quota", "quota", "quota", "quota", "ok">>
            => sleeps[n] = <<1, 2, 4, 8>> /\ handed[n] = "payload"

(***************************************************************************)
(* C2.  A remote call that answers quota-exceeded on every attempt is      *)
(* invoked exactly 5 times by safe_api_call, never a 6th, and the call     *)
(* then ends in the failure outcome None, without a payload.               *)
(***************************************************************************)
C2_FiveAttemptsThenNone ==
    \A n \in 1..Len(sleeps) :
        AllQuota(AnswersOf(n)) =>
            /\ Len(AnswersOf(n)) <= 5
            /\ Len(AnswersOf(n)) = 5 <=> (n <= Len(handed))
            /\ n <= Len(handed) => handed[n] = "None"

C2_Witness ==
    \E n \in 1..Len(handed) : GaveUp(n) /\ handed[n] = "None"

(***************************************************************************)
(* C3.  What safe_api_call hands its caller after exhausting the quota     *)
(* retries differs from what it hands it for a 404, and the caller aborts  *)
(* the operation with the failure instead of skipping and going on.        *)
(***************************************************************************)
C3_GiveUpIsFatal ==
    \A n \in 1..Len(handed) :
        GaveUp(n) =>
            /\ status = "raised"
            /\ \A m \in 1..Len(handed) :
                   (AnswersOf(m)[Len(AnswersOf(m))] = "notfound")
                       => handed[m] # handed[n]

(***************************************************************************)
(* C4.  With no failure, playlist_videos_id for a channel whose playlist   *)
(* is served in N pages returns the video ids of the pages 1..N in page    *)
(* order, each once, and makes no list call after the page whose           *)
(* next-token is null.                                                     *)
(***************************************************************************)
C4_AllPagesInOrder ==
    (/\ op = "playlist_videos_id" /\ Done
     /\ Len(input) = 1 /\ ChannelExists(input[1])
     /\ \A i \in 1..Len(calls) : calls[i].ans = "ok")
        => /\ status = "returned"
           /\ result = Uploads(input[1])
           /\ Len(CallsTo("playlistItems.list")) = NPages(Uploads(input[1]))

(***************************************************************************)
(* C5.  When the call for page k of the playlist ends in safe_api_call's   *)
(* terminal failure, playlist_videos_id stops and returns the items of     *)
(* the pages 1..k-1.  The call for page k is the (k+1)-th safe_api_call.   *)
(***************************************************************************)
C5_PagesBeforeTheFailure ==
    (/\ op = "playlist_videos_id" /\ Done
     /\ input = <<1>>
     /\ PlannedNone
     /\ plan.call \in 2..(1 + NPages(Uploads(1))))
        => /\ status = "returned"
           /\ result = SubSeq(Uploads(1), 1, 50 * (plan.call - 2))

(***************************************************************************)
(* C6.  A fetch operation whose remote call fails, in any way, after       *)
(* items were gathered does not end in a raise that loses them: it         *)
(* returns, and what it returns starts with the items gathered before the  *)
(* failure.                                                                *)
(***************************************************************************)
GatheredBefore ==
    CASE op = "playlist_videos_id" ->
           IF input = <<1>> /\ plan.call \in 3..(1 + NPages(Uploads(1)))
           THEN SubSeq(Uploads(1), 1, 50 * (plan.call - 2)) ELSE <<>>
      [] op = "videos_data" ->
           IF plan.call \in 2..NChunks(Len(input))
           THEN VideoRowsOf(SubSeq(input, 1, 50 * (plan.call - 1))) ELSE <<>>
      [] op = "comments_inf" ->
           IF remote.nc <= 50 /\ plan.call \in 2..Len(input)
           THEN CommentRowsOf(SubSeq(input, 1, plan.call - 1)) ELSE <<>>
      [] OTHER -> <<>>

C6_GatheredItemsAreReturned ==
    (Done /\ PlannedFailure /\ GatheredBefore # <<>>)
        => status = "returned" /\ IsPrefix(GatheredBefore, result)

(***************************************************************************)
(* C7.  In comments_inf a video whose comment-thread call is answered      *)
(* with the comments-disabled signal contributes no comment, and the       *)
(* comments of every other video of the input are fetched and returned.    *)
(***************************************************************************)
C7_DisabledVideoIsSkipped ==
    (/\ op = "comments_inf" /\ Done
     /\ ~plan.free /\ plan.quota = 0
     /\ plan.fault \in {"disabled", "disabled_body"}
     /\ plan.call \in 1..Len(input)
     /\ remote.nc <= 50)
        => /\ status = "returned"
           /\ result = CommentRowsOf(Without(input, plan.call))

(***************************************************************************)
(* C8.  In comments_inf a failure of one video's comment-thread call that  *)
(* is not the comments-disabled signal (another 403, or any other failure  *)
(* of that call) ends that video's pagination only: the comments of the    *)
(* earlier videos are kept and the later videos are still fetched.         *)
(***************************************************************************)
C8_FailedVideoIsSkipped ==
    (/\ op = "comments_inf" /\ Done
     /\ PlannedFailure
     /\ plan.fault \notin {"disabled", "disabled_body"}
     /\ plan.call \in 1..Len(input)
     /\ remote.nc <= 50)
        => /\ status = "returned"
           /\ IsPrefix(CommentRowsOf(SubSeq(input, 1, plan.call - 1)), result)
           /\ result = CommentRowsOf(Without(input, plan.call))

(***************************************************************************)
(* C9.  For n >= 1 video ids and no failure, videos_data makes             *)
(* ceil(n/50) detail calls, the i-th with the i-th run of at most 50 ids,  *)
(* and returns the records of the ids the remote holds, in input order.    *)
(***************************************************************************)
C9_ChunksOfFifty ==
    (/\ op = "videos_data" /\ Done
     /\ Len(input) >= 1
     /\ NoFault)
        => /\ status = "returned"
           /\ Len(calls) = NChunks(Len(input))
           /\ \A i \in 1..Len(calls) :
                  calls[i].arg = SubSeq(input, 50 * (i - 1) + 1,
                                        Min(50 * i, Len(input)))
           /\ result = VideoRowsOf(input)

(***************************************************************************)
(* C10.  Inserting a record whose key is already in its table is reported  *)
(* as not stored, and the table keeps exactly one row for that key.        *)
(***************************************************************************)
NotStored(shown) == shown \in {"skipped", "error"}

DuplicateInsert(t, df) ==
    InsertInto(t, df) /\ KeysOf(t, df) \cap KeysOf(t, db[t]) # {}

KeptOnce(t, df) ==
    /\ NotStored(outcome')
    /\ \A k \in KeysOf(t, df) \cap KeysOf(t, db[t]) :
           Cardinality(RowsWithKey(t, db'[t], k)) = 1

C10_DuplicateKeyIsSkipped ==
    [][/\ \A df \in Frames(VideoRecord) :
              DuplicateInsert("videos", df) => KeptOnce("videos", df)
       /\ \A df \in Frames(CommentRecord) :
              DuplicateInsert("comments", df) => KeptOnce("comments", df)]_vars

(***************************************************************************)
(* C11.  For each kind of entity, an insert whose key is already stored    *)
(* is reported as "skipped", and that report differs from the one a hard   *)
(* failure of the store (any other exception of to_sql) gets.  Stated for  *)
(* the tables Stream.py created itself, with their PRIMARY KEY.            *)
(***************************************************************************)
Keyed(t) == schema[t] = "pk"

SkippedNotFailed(t) ==
    /\ outcome' = "skipped"
    /\ outcome' # InsertReport(t, "OperationalError")

C11_DuplicateIsSkippedNotFailed ==
    [][/\ InsertReport("channels", "IntegrityError") = "skipped"
       /\ InsertReport("channels", "IntegrityError")
              # InsertReport("channels", "OperationalError")
       /\ \A df \in Frames(VideoRecord) :
              (Keyed("videos") /\ DuplicateInsert("videos", df))
                  => SkippedNotFailed("videos")
       /\ \A df \in Frames(CommentRecord) :
              (Keyed("comments") /\ DuplicateInsert("comments", df))
                  => SkippedNotFailed("comments")]_vars

(***************************************************************************)
(* C12.  An insert of a batch of which some keys are stored and some are   *)
(* new appends the records of the new keys and nothing else: afterwards    *)
(* the table holds its previous rows followed by the new-key records.      *)
(* Stated for the tables Stream.py created itself, with their PRIMARY KEY. *)
(***************************************************************************)
DistinctKeys(t, df) ==
    \A i, j \in 1..Len(df) : i # j => KeyOf(t, df[i]) # KeyOf(t, df[j])

NewRecords(t, df) ==
    SelectSeq(df, LAMBDA r : KeyOf(t, r) \notin KeysOf(t, db[t]))

MixedInsert(t, df) ==
    /\ Keyed(t)
    /\ DuplicateInsert(t, df)
    /\ DistinctKeys(t, df)
    /\ NewRecords(t, df) # <<>>

C12_NewKeysOfABatchAreStored ==
    [][/\ \A df \in Frames(VideoRecord) :
              MixedInsert("videos", df)
                  => db'.videos = db.videos \o NewRecords("videos", df)
       /\ \A df \in Frames(CommentRecord) :
              MixedInsert("comments", df)
                  => db'.comments = db.comments \o NewRecords("comments", df)]_vars

(***************************************************************************)
(* C13.  In every reachable state of the store each table holds at most    *)
(* one row per value of its key (channel_id, Video_Id, comment_id).        *)
(***************************************************************************)
C13_OneRowPerKey ==
    \A t \in Tables :
        \A k \in KeysOf(t, db[t]) : Cardinality(RowsWithKey(t, db[t], k)) = 1

(***************************************************************************)
(* C14.  No step of the program changes or deletes a stored row: every     *)
(* table's rows stay, in their place and with their fields, and a step     *)
(* can only add rows after them.                                           *)
(***************************************************************************)
C14_StoredRowsNeverChange ==
    [][\A t \in Tables : IsPrefix(db[t], db'[t])]_vars

\* A key was inserted again with other field values, and its first row is
\* still there.
C14_Witness ==
    \E i, j \in 1..Len(db.videos) :
        /\ i < j
        /\ db.videos[i].Video_Id = db.videos[j].Video_Id
        /\ db.videos[i] # db.videos[j]

(***************************************************************************)
(* C15 (as the code has it).  An insert of an empty record set leaves the  *)
(* rows of every table unchanged and shows the warning "No video data to   *)
(* insert." / "No comment data to insert.": neither an error nor a         *)
(* success message.                                                        *)
(***************************************************************************)
C15_EmptyInsertIsANoOpWithWarning ==
    [][\A t \in {"videos", "comments"} :
           InsertInto(t, <<>>) => db' = db /\ outcome' = "no_data"]_vars

C15_Witness == outcome = "no_data"

(***************************************************************************)
(* C15 (as stated).  An insert of an empty record set leaves the rows of   *)
(* every table unchanged and reports success.                              *)
(***************************************************************************)
C15_EmptyInsertReportsSuccess ==
    [][\A t \in {"videos", "comments"} :
           InsertInto(t, <<>>) => db' = db /\ outcome' = "success"]_vars

(***************************************************************************)
(* C16.  With no failure, a fetch succeeds also when the payload leaves    *)
(* out a count, and every count it returns is a non-negative integer: 0    *)
(* for a count left out (the subscriber count of a channel, the view,      *)
(* like and comment counts of a video), the payload's number otherwise.    *)
(***************************************************************************)
CountsOfChannel(row) == <<row.channel_viewcount, row.channel_subcount>>

CountsOfVideo(row) ==
    <<row.Video_viewcount, row.Video_likecount, row.Video_commentcount>>

C16_AbsentCountsAreZero ==
    /\ (/\ op = "channel_info" /\ Done /\ NoFault
        /\ ChannelExists(input[1]))
           => /\ status = "returned"
              /\ Len(result) = 1
              /\ CountsOfChannel(result[1]) =
                     <<10 * input[1], IF remote.bare THEN 0 ELSE input[1]>>
    /\ (/\ op = "videos_data" /\ Done /\ NoFault
        /\ Len(input) >= 1)
           => /\ status = "returned"
              /\ \A i \in 1..Len(result) :
                     CountsOfVideo(result[i]) =
                        IF remote.bare THEN <<0, 0, 0>>
                        ELSE <<10 * result[i].Video_Id, result[i].Video_Id,
                               remote.nc>>

(***************************************************************************)
(* C17.  playlist_videos_id for one channel, with no failure: when the     *)
(* lookup resolves no uploads playlist (the channel is unknown, so the     *)
(* lookup's result is empty) it returns no ids and emits the error "No     *)
(* content details found"; when the channel has a playlist of zero videos  *)
(* it returns no ids and does not emit that error.                         *)
(***************************************************************************)
SaidNoPlaylist == \E i \in 1..Len(notes) : notes[i] = "no_content_details"

C17_NoPlaylistIsSignalled ==
    (/\ op = "playlist_videos_id" /\ Done /\ NoFault
     /\ Len(input) = 1
     /\ Uploads(input[1]) = <<>>)
        => /\ status = "returned"
           /\ result = <<>>
           /\ SaidNoPlaylist <=> ~ChannelExists(input[1])

(***************************************************************************)
(* C18.  execute_query runs, for each of the ten selection names, the one  *)
(* statement the name stands for; for any other name it runs no statement, *)
(* returns an empty result and emits "Invalid query selected.".            *)
(***************************************************************************)
C18_SelectionsAndInvalidSelection ==
    (op = "execute_query" /\ status = "returned") =>
        IF report.question \in DOMAIN query_mapping
        THEN /\ report.statement = query_mapping[report.question]
             /\ ~report.invalid
             /\ \A q \in DOMAIN query_mapping :
                    q # report.question
                        => query_mapping[q] # report.statement
        ELSE /\ report.statement = "none"
             /\ report.rows = <<>>
             /\ report.invalid

C18_Witness ==
    /\ op = "execute_query" /\ status = "returned"
    /\ report.question \notin DOMAIN query_mapping
    /\ db.videos # <<>>

\* The values the grammar PT[<H>H][<M>M][<S>S] gives a token: none when the
\* token is not of that form.
GrammarValues(t) ==
    UNION {UNION {{(3600 * IntOf(h)) + (60 * IntOf(m)) + IntOf(s) :
                      s \in {x \in SeqsUpTo({"0", "1"}, MaxTokenLen + MaxDigits) :
                                t = Compose(h, m, x)}} :
                  m \in {x \in SeqsUpTo({"0", "1"}, MaxTokenLen + MaxDigits) :
                            IsPrefix(<<"P", "T">> \o Part(h, "H")
                                         \o Part(x, "M"), t)}} :
           h \in {x \in SeqsUpTo({"0", "1"}, MaxTokenLen + MaxDigits) :
                     IsPrefix(<<"P", "T">> \o Part(x, "H"), t)}}

(***************************************************************************)
(* C19.  iso8601_duration_to_seconds returns 3600*H + 60*M + S for every   *)
(* token of the form PT[<H>H][<M>M][<S>S], an omitted component counting   *)
(* as 0, and 0 for every token that is not of that form; the result is a   *)
(* non-negative integer.                                                   *)
(***************************************************************************)
C19_DurationDecoding ==
    seconds # <<>> =>
        /\ seconds[1] \in Nat
        /\ IF GrammarValues(duration) # {}
           THEN seconds[1] \in GrammarValues(duration)
           ELSE seconds[1] = 0

TotalViews ==
    "What is the total number of views for each channel, and what are their corresponding channel names?"

\* The row the report owes channel 1 when the remote holds videos 1 and 2:
\* the channel's title and the sum of the two view counts.
TotalViewsRowOfC1 ==
    <<ChannelItem(1).title,
      VideoStatistics(1)["viewCount"] + VideoStatistics(2)["viewCount"]>>

(***************************************************************************)
(* C20.  After the three buttons have harvested channel 1 from a remote    *)
(* that serves two videos with one comment each and no errors, the report  *)
(* "total views per channel" returns exactly one row: the channel's        *)
(* display name and the sum of the two videos' view counts.                *)
(***************************************************************************)
C20_TotalViewsAfterHarvest ==
    (/\ op = "execute_query" /\ status = "returned"
     /\ report.question = TotalViews
     /\ harvested = {"channel", "videos", "comments"})
        => /\ Cardinality(DOMAIN report.rows) = 1
           /\ \A n \in DOMAIN report.rows : report.rows[n] = TotalViewsRowOfC1

\* The ids of the i-th chunk of videos_data's input.
ChunkIds(i) ==
    SubSeq(input, ChunkSize * (i - 1) + 1, Min(ChunkSize * i, Len(input)))

\* The remote holds none of the videos of the i-th chunk.
YieldsNoItems(i) == SelectSeq(ChunkIds(i), VideoExists) = <<>>

(***************************************************************************)
(* C21.  In videos_data, with a remote that answers every call as the      *)
(* videos it holds dictate, a chunk whose detail call yields no items is   *)
(* logged and skipped: every chunk is still requested, and the records of  *)
(* the other chunks are returned.                                          *)
(***************************************************************************)
C21_EmptyChunkIsSkipped ==
    (/\ op = "videos_data" /\ Done
     /\ NoFault
     /\ \E i \in 1..NChunks(Len(input)) : YieldsNoItems(i))
        => /\ status = "returned"
           /\ \E j \in 1..Len(notes) : notes[j] = "no_data_for_batch"
           /\ Len(calls) = NChunks(Len(input))
           /\ \A i \in 1..Len(calls) : calls[i].arg = ChunkIds(i)
           /\ result = VideoRowsOf(input)

\* The next-token of the page served to the i-th call of comments_inf.
NextTokenOf(i) == PageNext(CommentsOf(calls[i].arg[1]), calls[i].tok)

(***************************************************************************)
(* C22.  In comments_inf, with no failure, every page answered with a      *)
(* non-null next-token is followed by a call for the same video with       *)
(* exactly that token, and the comments of every page of every video the   *)
(* remote holds are returned.                                              *)
(***************************************************************************)
C22_TokenIsThreaded ==
    (/\ op = "comments_inf" /\ Done
     /\ NoFault
     /\ \E v \in 1..Len(input) : VideoExists(input[v]) /\ remote.nc > PageSize)
        => /\ \A i \in 1..Len(calls) :
                  (calls[i].ans = "ok" /\ NextTokenOf(i) # Null)
                      => /\ i < Len(calls)
                         /\ calls[i + 1].arg = calls[i].arg
                         /\ calls[i + 1].tok = NextTokenOf(i)
           /\ result = CommentRowsOf(input)

\* The answers before the i-th of a sequence of answers.
Before(a, i) == SubSeq(a, 1, i - 1)

(***************************************************************************)
(* C23.  A 404 answer ends the safe_api_call it is given to, at any        *)
(* attempt: after 0 to 4 quota-exceeded answers the call returns None at   *)
(* once, the remote call is not invoked again, and no sleep follows the    *)
(* 404 (the only sleeps of the call are those of the preceding retries).   *)
(***************************************************************************)
C23_NotFoundIsTerminal ==
    \A n \in 1..Len(sleeps) :
        \A i \in 1..Len(AnswersOf(n)) :
            AnswersOf(n)[i] = "notfound" =>
                /\ i = Len(AnswersOf(n))
                /\ i - 1 \in 0..(max_retries - 1)
                /\ AllQuota(Before(AnswersOf(n), i))
                /\ n <= Len(handed) /\ handed[n] = "None"
                /\ sleeps[n] = [k \in 1..(i - 1) |-> Backoff(k - 1)]

C23_Witness ==
    \E n \in 1..Len(handed) :
        /\ AnswersOf(n) = <<"quota", "quota", "quota", "quota", "notfound">>
        /\ handed[n] = "None"
        /\ sleeps[n] = <<1, 2, 4, 8>>

\* The notifications of a step, in the order they are shown.
NewNotes == SubSeq(notes', Len(notes) + 1, Len(notes'))

\* The answer to the remote call a step invokes.
Answered == calls'[Len(calls')].ans

(***************************************************************************)
(* C24.  Every pass of safe_api_call that ends in a retry, in the 404      *)
(* skip, in the give-up after five attempts or in a raise shows its        *)
(* notification first: the notification precedes whatever the caller       *)
(* shows once control is back with it.                                     *)
(***************************************************************************)
C24_NotifiedBeforeReturn ==
    [][Len(calls') = Len(calls) + 1 =>
          /\ Answered = "quota" => IsPrefix(<<"retry">>, NewNotes)
          /\ (Answered = "quota" /\ handed' # handed)
                 => /\ IsPrefix(<<"retry", "gave_up">>, NewNotes)
                    /\ handed' = Append(handed, "None")
          /\ Answered = "notfound" => IsPrefix(<<"skip_404">>, NewNotes)
          /\ handed' = Append(handed, "raised")
                 => \/ IsPrefix(<<"api_error">>, NewNotes)
                    \/ IsPrefix(<<"call_error">>, NewNotes)]_vars

C24_Witness ==
    /\ Done
    /\ \E n \in 1..Len(handed) :
           /\ AnswersOf(n) = <<"quota", "notfound">>
           /\ handed[n] = "None"
    /\ \E j \in 1..(Len(notes) - 1) :
           notes[j] = "retry" /\ notes[j + 1] = "skip_404"

(***************************************************************************)
(* C25.  In safe_api_call every backoff sleep is followed by another       *)
(* invocation of the remote call: a call that has ended has slept once     *)
(* less than it has invoked the remote call, so it has not slept after     *)
(* its last attempt.                                                       *)
(***************************************************************************)
C25_NoSleepAfterTheLastAttempt ==
    \A n \in 1..Len(handed) : Len(sleeps[n]) = Len(AnswersOf(n)) - 1

=============================================================================
